---- MODULE Spec2Model ----
(***************************************************************************)
(* The hash-chained evidence ledger of apex-sentinel:                      *)
(*   security_ledger.py  (get_previous_hash, generate_chained_hash,        *)
(*                        log_to_ledger)                                   *)
(*   verify_integrity.py (verify_ledger)                                   *)
(* and the scoring that precedes it:                                       *)
(*   main.py             (predict_anomaly)                                 *)
(*   train_model.py      (create_sequences)                                *)
(*   anomaly_analysis.py (generate_anomaly_explanation_text,               *)
(*                        get_dynamic_interpretation)                      *)
(* and the callers of data_collection.py (collect_telemetry_data):         *)
(*   main.py             (load_race_data)                                  *)
(*   dashboard.py        (download_and_prepare, the buttons, the           *)
(*                        simulation loop)                                 *)
(*                                                                         *)
(* Text is modelled as a sequence of string tokens.  json.dumps of a dict  *)
(* is the token sequence "{" key value ... "}" with the keys in sorted     *)
(* order; string concatenation is \o.  sha256(..).hexdigest() is modelled  *)
(* as an ideal (collision free) hash: the digest of a text is the text     *)
(* wrapped in "sha256(" ... ")", so two digests are equal exactly when     *)
(* their preimages are equal.                                              *)
(***************************************************************************)
EXTENDS Integers, Sequences, FiniteSets, TLC

VARIABLES
    file,      \* reports/secure_ledger.json: [state, entries]
    ret,       \* how the last log_to_ledger call ended: "none", "returned", "RenderError"
    out,       \* console output of the last verify_ledger run on the file
    modified,  \* the stored file was changed by something else than log_to_ledger
    tampers,   \* the out-of-band modifications so far: <<entry index, field>>
    pc,        \* per writer: position inside log_to_ledger
    loc,       \* per writer: its locals (previous_hash, entry, ledger_data)
    input,     \* the arguments and the collaborators' outcomes of a scoring call
    result,    \* what the scoring call returned
    dash       \* the dashboard: st.session_state, the status line, the script run

vars == <<file, ret, out, modified, tampers, pc, loc, input, result, dash>>

---------------------------------------------------------------------------
(* Bounds of the model *)

\* longest ledger that is built
MaxLen == 2

\* most out-of-band modifications of the stored file in one behaviour
MaxTamper == 2

\* number of concurrent callers of log_to_ledger
NumWriters == 2

---------------------------------------------------------------------------
(* Values *)

\* the 64 zero hex digits of the genesis previous_hash
GenesisHash == <<"0000000000000000000000000000000000000000000000000000000000000000">>

\* the previous_hash verify_ledger starts from
VerifierGenesisHash == <<"0000000000000000000000000000000000000000000000000000000000000000">>

\* datetime.utcnow().isoformat() + "Z": the clock readings a call may get
Timestamps == {"2026-10-30T10:00:00Z", "2026-10-30T10:00:01Z"}

\* event_report.get("classification") / .get("severity"): "null" is None
Classifications == {"TractionLoss", "DriverLockUp"}

Severities == {"PhysicalEvent", "null"}

\* one (feature, score) pair of top_features; kind is the Python type that
\* holds it: a tuple in a caller's report, a list once it went through JSON
Pair(kind, feat, score) == [kind |-> kind, feat |-> feat, score |-> score]

TopFeaturesA == <<Pair("tuple", "RPM", "0.5"), Pair("tuple", "Throttle", "0.4")>>

TopFeaturesB == <<Pair("tuple", "Brake", "0.7"), Pair("tuple", "Speed", "0.2")>>

RawSnapshots == {"snapshot-1", "snapshot-2"}

\* the event reports callers pass to log_to_ledger
EventReports ==
    { [classification |-> "TractionLoss", severity |-> "PhysicalEvent",
       top_features |-> TopFeaturesA, raw_snapshot |-> "snapshot-1"],
      [classification |-> "DriverLockUp", severity |-> "null",
       top_features |-> TopFeaturesB, raw_snapshot |-> "snapshot-2"] }

\* the session metadata callers pass to log_to_ledger
Metadatas == {"2023/Bahrain/PER", "2023/Bahrain/VER"}

---------------------------------------------------------------------------
(* JSON *)

\* what json.dump followed by json.load makes of a list of pairs:
\* tuples come back as lists
JsonRoundTripPairs(tf) ==
    [i \in 1..Len(tf) |-> Pair("list", tf[i].feat, tf[i].score)]

\* what json.dump followed by json.load makes of an event report
JsonRoundTripReport(r) ==
    [r EXCEPT !.top_features = JsonRoundTripPairs(r.top_features)]

RECURSIVE PairsTokens(_)
\* json.dumps of a list of pairs: tuples and lists are both written [f, s]
PairsTokens(tf) ==
    IF tf = <<>> THEN <<>>
    ELSE <<"[", Head(tf).feat, Head(tf).score, "]">> \o PairsTokens(Tail(tf))

\* json.dumps of the value stored under key k
ValueTokens(k, v) ==
    IF k = "top_features" THEN <<"[">> \o PairsTokens(v) \o <<"]">> ELSE <<v>>

\* the keys of the hashed dicts, in the order sort_keys=True puts them
SortedKeys == <<"classification", "severity", "timestamp", "top_features", "type">>

RECURSIVE MembersTokens(_, _)
MembersTokens(d, keys) ==
    IF keys = <<>> THEN <<>>
    ELSE (IF Head(keys) \in DOMAIN d
          THEN <<Head(keys)>> \o ValueTokens(Head(keys), d[Head(keys)])
          ELSE <<>>) \o MembersTokens(d, Tail(keys))

\* json.dumps(d, sort_keys=True)
json_dumps(d) == <<"{">> \o MembersTokens(d, SortedKeys) \o <<"}">>

\* hashlib.sha256(text).hexdigest(), as an ideal hash
sha256(text) == <<"sha256(">> \o text \o <<")">>

\* security_ledger.generate_chained_hash
generate_chained_hash(event_data, previous_hash) ==
    sha256(json_dumps(event_data) \o previous_hash)

---------------------------------------------------------------------------
(* The ledger file *)

\* state: "absent"  no file
\*        "json"    the file parses; entries is the list it holds
\*        "empty"   zero bytes (just truncated by open(.., 'w')); no JSON
\*        "garbled" bytes that are not a JSON document
NoFile == [state |-> "absent", entries |-> <<>>]

JsonFile(entries) == [state |-> "json", entries |-> entries]

EmptyFile == [state |-> "empty", entries |-> <<>>]

GarbledFile == [state |-> "garbled", entries |-> <<>>]

\* os.path.exists(ledger_path)
Exists(f) == f.state # "absent"

\* json.load(f) succeeds
Parses(f) == f.state = "json"

---------------------------------------------------------------------------
(* security_ledger.py *)

\* get_previous_hash with the read of the last entry lost: always genesis
get_previous_hash_always_genesis(f) == GenesisHash

\* get_previous_hash(ledger_path)
get_previous_hash(f) ==
    IF ~Exists(f) THEN GenesisHash
    ELSE IF Parses(f)
         THEN (IF f.entries # <<>>
               THEN f.entries[Len(f.entries)].integrity_hash
               ELSE GenesisHash)
         ELSE GenesisHash   \* bare except

\* the dict log_to_ledger hashes
verification_payload(event_report, timestamp) ==
    [timestamp |-> timestamp,
     type |-> event_report.classification,
     top_features |-> event_report.top_features]

\* datetime.now().strftime('%Y%m%d') on the day of Timestamps
LocalDate == "20261030"

\* integrity_hash[:6].upper(): six hex digits, one of 16^6 values, of which
\* these two are followed; which one a digest starts with is fixed by
\* SHA-256 and is drawn when the digest is first computed
HexPrefixes == {"D69E59", "5E1D77"}

\* f"EVT-{date}-{prefix}"
EventId(prefix) == <<"EVT", LocalDate, prefix>>

\* the entry log_to_ledger builds, its digest starting with prefix
NewEntry(event_report, metadata, timestamp, previous_hash, prefix) ==
    LET integrity_hash ==
            generate_chained_hash(verification_payload(event_report, timestamp),
                                  previous_hash)
    IN [id |-> EventId(prefix),
        timestamp |-> timestamp,
        metadata |-> metadata,
        previous_hash |-> previous_hash,
        integrity_hash |-> integrity_hash,
        data |-> event_report]

\* ledger_data after the re-read of the file
LoadLedgerData(f) ==
    IF Exists(f) /\ Parses(f) THEN f.entries ELSE <<>>   \* except: pass

\* an entry as it is once written with json.dump
StoredEntry(entry) == [entry EXCEPT !.data = JsonRoundTripReport(entry.data)]

\* the save with the loaded entries dropped: only the new entry is written
SavedLedger_only_new(ledger_data, entry) == <<StoredEntry(entry)>>

\* ledger_data.append(entry); json.dump(ledger_data, f)
SavedLedger(ledger_data, entry) == Append(ledger_data, StoredEntry(entry))

---------------------------------------------------------------------------
(* verify_integrity.py *)

\* the verifier's dict with the severity left out
verification_data_no_severity(entry) ==
    [timestamp |-> entry.timestamp,
     classification |-> entry.data.classification,
     top_features |-> entry.data.top_features]

\* the dict verify_ledger hashes
verification_data(entry) ==
    [timestamp |-> entry.timestamp,
     classification |-> entry.data.classification,
     severity |-> entry.data.severity,
     top_features |-> entry.data.top_features]

NoOut == [verdict |-> "none", blocks |-> <<>>]

RECURSIVE VerifyLoop_no_break(_, _, _, _)
\* the loop with the break after "Tampering Detected!" missing: it goes on
\* to the next entry
VerifyLoop_no_break(ledger, i, previous_hash, blocks) ==
    IF i > Len(ledger)
    THEN [verdict |-> IF \A k \in 1..Len(blocks) : blocks[k] = "Verified"
                      THEN "Clean" ELSE "Compromised",
          blocks |-> blocks]
    ELSE LET entry == ledger[i]
         IN IF entry.previous_hash # previous_hash
            THEN [verdict |-> "TypeError",
                  blocks |-> Append(blocks, "BrokenLink")]
            ELSE IF generate_chained_hash(verification_data(entry), previous_hash)
                        # entry.integrity_hash
                 THEN VerifyLoop_no_break(ledger, i + 1, entry.integrity_hash,
                                          Append(blocks, "Tampering"))
                 ELSE VerifyLoop_no_break(ledger, i + 1, entry.integrity_hash,
                                          Append(blocks, "Verified"))

RECURSIVE VerifyLoop(_, _, _, _)
\* the for loop of verify_ledger from entry i on; blocks are the per-block
\* outcomes printed so far.  The Broken Link branch evaluates
\* previous_hash[.16], which raises TypeError before is_clean is cleared
\* and before the final verdict is printed.
VerifyLoop(ledger, i, previous_hash, blocks) ==
    IF i > Len(ledger) THEN [verdict |-> "Clean", blocks |-> blocks]
    ELSE LET entry == ledger[i]
         IN IF entry.previous_hash # previous_hash
            THEN [verdict |-> "TypeError",
                  blocks |-> Append(blocks, "BrokenLink")]
            ELSE IF generate_chained_hash(verification_data(entry), previous_hash)
                        # entry.integrity_hash
                 THEN [verdict |-> "Compromised",
                       blocks |-> Append(blocks, "Tampering")]
                 ELSE VerifyLoop(ledger, i + 1, entry.integrity_hash,
                                 Append(blocks, "Verified"))

\* a run that goes on to the loop and the verdict after a JSON error
VerifyOutput_unreadable_is_clean(f) ==
    IF ~Exists(f) THEN [verdict |-> "NotFound", blocks |-> <<>>]
    ELSE IF ~Parses(f) THEN [verdict |-> "Clean", blocks |-> <<>>]
    ELSE VerifyLoop(f.entries, 1, VerifierGenesisHash, <<>>)

\* a run that takes a ledger without entries for a compromised one
VerifyOutput_empty_is_compromised(f) ==
    IF ~Exists(f) THEN [verdict |-> "NotFound", blocks |-> <<>>]
    ELSE IF ~Parses(f) THEN [verdict |-> "Corrupt", blocks |-> <<>>]
    ELSE IF f.entries = <<>> THEN [verdict |-> "Compromised", blocks |-> <<>>]
    ELSE VerifyLoop(f.entries, 1, VerifierGenesisHash, <<>>)

\* verify_ledger() on the file as it is when read
VerifyOutput(f) ==
    IF ~Exists(f) THEN [verdict |-> "NotFound", blocks |-> <<>>]
    ELSE IF ~Parses(f) THEN [verdict |-> "Corrupt", blocks |-> <<>>]
    ELSE VerifyLoop(f.entries, 1, VerifierGenesisHash, <<>>)

---------------------------------------------------------------------------
(* Actions *)

Writers == 1..NumWriters

\* no scoring call is made
NoInput == [kind |-> "none"]

NoResult == [op |-> "none"]

\* the dashboard is not open
NoDash == [pc |-> "closed"]

NoLocals == [previous_hash |-> <<>>, entry |-> <<>>, ledger_data |-> <<>>]

Init ==
    /\ file = NoFile
    /\ ret = "none"
    /\ out = NoOut
    /\ modified = FALSE
    /\ tampers = {}
    /\ pc = [w \in Writers |-> "idle"]
    /\ loc = [w \in Writers |-> NoLocals]
    /\ input = NoInput
    /\ result = NoResult
    /\ dash = NoDash

\* the entries whose digest has been computed: those of the ledger file and
\* those the writers hold
KnownEntries ==
    {file.entries[i] : i \in 1..Len(file.entries)}
        \cup {loc[w].entry : w \in {v \in Writers : pc[v] # "idle"}}

\* the prefixes the digest h may start with: equal digests, equal prefixes
HexPrefixChoices(h) ==
    {p \in HexPrefixes :
        \A e \in KnownEntries : e.integrity_hash = h => e.id = EventId(p)}

\* what log_to_ledger leaves in the file when generate_professional_pdf
\* runs before the save and fails
FileAfterCall_render_first(f, entry, rendered) ==
    IF rendered THEN JsonFile(SavedLedger(LoadLedgerData(f), entry)) ELSE f

\* what log_to_ledger leaves in the file: the save (lines 72-74) comes
\* before generate_professional_pdf (line 79)
FileAfterCall(f, entry, rendered) ==
    JsonFile(SavedLedger(LoadLedgerData(f), entry))

\* log_to_ledger returns the id and the PDF path, or the exception of
\* generate_professional_pdf leaves it
ReturnOf(rendered) == IF rendered THEN "returned" ELSE "RenderError"

\* one whole call log_to_ledger(event_report, metadata), nothing else running.
\* The report and the metadata are JSON-serialisable, so json.dump completes;
\* rendered tells whether generate_professional_pdf completes.
log_to_ledger(event_report, metadata, timestamp, prefix, rendered) ==
    LET entry == NewEntry(event_report, metadata, timestamp,
                          get_previous_hash(file), prefix)
    IN /\ Len(file.entries) < MaxLen
       /\ prefix \in HexPrefixChoices(entry.integrity_hash)
       /\ file' = FileAfterCall(file, entry, rendered)
       /\ ret' = ReturnOf(rendered)
       /\ out' = NoOut
       /\ UNCHANGED <<modified, tampers, pc, loc, input, result, dash>>

LogToLedger ==
    \E r \in EventReports, m \in Metadatas, t \in Timestamps,
       p \in HexPrefixes, rendered \in BOOLEAN :
        log_to_ledger(r, m, t, p, rendered)

\* a run that cuts the ledger back to the entries it verified
verify_ledger_truncating ==
    /\ out' = VerifyOutput(file)
    /\ file' = IF Parses(file) /\ VerifyOutput(file).verdict # "Clean"
               THEN JsonFile(SubSeq(file.entries, 1,
                                    Len(VerifyOutput(file).blocks) - 1))
               ELSE file
    /\ UNCHANGED <<ret, modified, tampers, pc, loc, input, result, dash>>

\* one whole run of verify_ledger()
verify_ledger ==
    /\ out' = VerifyOutput(file)
    /\ UNCHANGED <<file, ret, modified, tampers, pc, loc, input, result, dash>>

\* the stored file is damaged out of band: it no longer parses
Garble ==
    /\ Cardinality(tampers) < MaxTamper
    /\ Exists(file)
    /\ file.state # "garbled"
    /\ file' = GarbledFile
    /\ modified' = TRUE
    /\ tampers' = tampers \cup {<<Cardinality(tampers), "file">>}
    /\ out' = NoOut
    /\ UNCHANGED <<ret, pc, loc, input, result, dash>>

Next == LogToLedger \/ verify_ledger \/ Garble

Spec == Init /\ [][Next]_vars

---------------------------------------------------------------------------
(* Audit of a stored ledger (SpecAudit): verify_ledger is a function of the *)
(* file it reads.  The file starts as a ledger verify_ledger accepts and is *)
(* then edited out of band, one field of one entry at a time.               *)

\* the event reports as they are stored (after JSON)
StoredReports == {JsonRoundTripReport(r) : r \in EventReports}

\* the metadata of the ledgers audited
AuditMetadata == "2023/Bahrain/PER"

\* an entry holding content c behind previous_hash, carrying the
\* integrity_hash that verify_ledger recomputes for it (its id, which
\* verify_ledger only prints, is the same for all)
SealedEntry(c, previous_hash) ==
    LET e == [id |-> EventId("D69E59"), timestamp |-> c.timestamp,
              metadata |-> AuditMetadata, previous_hash |-> previous_hash,
              integrity_hash |-> <<>>, data |-> c.data]
        h == generate_chained_hash(verification_data(e), previous_hash)
    IN [e EXCEPT !.integrity_hash = h]

RECURSIVE SealedChain(_, _)
\* the ledger of the contents cs, chained from previous_hash
SealedChain(cs, previous_hash) ==
    IF cs = <<>> THEN <<>>
    ELSE LET e == SealedEntry(Head(cs), previous_hash)
         IN <<e>> \o SealedChain(Tail(cs), e.integrity_hash)

\* the timestamp of the entries of the ledgers audited
AuditTimestamps == {"2026-10-30T10:00:00Z"}

Contents == [timestamp : AuditTimestamps, data : StoredReports]

\* the contents of the ledgers of at most MaxLen entries
ContentLists == UNION {[1..n -> Contents] : n \in 0..MaxLen}

\* the fields of a stored entry an edit can change
HashedFields == {"timestamp", "classification", "severity", "top_features"}

UnhashedFields == {"raw_snapshot", "metadata"}

LinkFields == {"previous_hash", "integrity_hash"}

Fields == HashedFields \cup UnhashedFields \cup LinkFields

\* a digest that belongs to no entry
ForgedHash == <<"ffffffffffffffffffffffffffffffffffffffffffffffffffffffffffffffff">>

FieldValue(e, field) ==
    CASE field = "timestamp" -> e.timestamp
      [] field = "metadata" -> e.metadata
      [] field = "previous_hash" -> e.previous_hash
      [] field = "integrity_hash" -> e.integrity_hash
      [] field = "classification" -> e.data.classification
      [] field = "severity" -> e.data.severity
      [] field = "top_features" -> e.data.top_features
      [] field = "raw_snapshot" -> e.data.raw_snapshot

SetField(e, field, v) ==
    CASE field = "timestamp" -> [e EXCEPT !.timestamp = v]
      [] field = "metadata" -> [e EXCEPT !.metadata = v]
      [] field = "previous_hash" -> [e EXCEPT !.previous_hash = v]
      [] field = "integrity_hash" -> [e EXCEPT !.integrity_hash = v]
      [] field = "classification" -> [e EXCEPT !.data.classification = v]
      [] field = "severity" -> [e EXCEPT !.data.severity = v]
      [] field = "top_features" -> [e EXCEPT !.data.top_features = v]
      [] field = "raw_snapshot" -> [e EXCEPT !.data.raw_snapshot = v]

\* the digests an edit may write into a hash field of entry i: genesis, a
\* forged digest, a digest copied from the ledger, or the digest recomputed
\* over the entry as it now is
HashCandidates(entries, i) ==
    {VerifierGenesisHash, ForgedHash}
        \cup {entries[j].integrity_hash : j \in 1..Len(entries)}
        \cup {generate_chained_hash(verification_data(entries[i]),
                                    entries[i].previous_hash)}

\* the values an edit may write into a field of entry i
FieldDomain(entries, i, field) ==
    CASE field = "timestamp" -> Timestamps
      [] field = "metadata" -> Metadatas
      [] field \in LinkFields -> HashCandidates(entries, i)
      [] field = "classification" -> Classifications
      [] field = "severity" -> Severities
      [] field = "top_features" -> {r.top_features : r \in StoredReports}
      [] field = "raw_snapshot" -> RawSnapshots

\* the files the audit starts from: no file, or a ledger verify_ledger accepts
AuditFiles ==
    {NoFile} \cup {JsonFile(SealedChain(cs, VerifierGenesisHash)) : cs \in ContentLists}

AuditInit ==
    /\ file \in AuditFiles
    /\ ret = "none"
    /\ out = NoOut
    /\ modified = FALSE
    /\ tampers = {}
    /\ pc = [w \in Writers |-> "idle"]
    /\ loc = [w \in Writers |-> NoLocals]
    /\ input = NoInput
    /\ result = NoResult
    /\ dash = NoDash

\* field `field` of stored entry i is overwritten with another value v
Tamper(i, field, v) ==
    /\ Parses(file)
    /\ Cardinality(tampers) < MaxTamper
    /\ <<i, field>> \notin tampers
    /\ v # FieldValue(file.entries[i], field)
    /\ file' = JsonFile([file.entries EXCEPT ![i] = SetField(@, field, v)])
    /\ modified' = TRUE
    /\ tampers' = tampers \cup {<<i, field>>}
    /\ out' = NoOut
    /\ UNCHANGED <<ret, pc, loc, input, result, dash>>

TamperEntry ==
    \E i \in 1..Len(file.entries), field \in Fields :
        \E v \in FieldDomain(file.entries, i, field) : Tamper(i, field, v)

AuditNext == TamperEntry \/ Garble \/ verify_ledger

SpecAudit == AuditInit /\ [][AuditNext]_vars

\* the last k entries are cut off the stored ledger, out of band
Truncate(k) ==
    /\ Parses(file)
    /\ Cardinality(tampers) < MaxTamper
    /\ k \in 1..Len(file.entries)
    /\ file' = JsonFile(SubSeq(file.entries, 1, Len(file.entries) - k))
    /\ modified' = TRUE
    /\ tampers' = tampers \cup {<<Len(file.entries) - k + 1, "truncated">>}
    /\ out' = NoOut
    /\ UNCHANGED <<ret, pc, loc, input, result, dash>>

TruncateLedger == \E k \in 1..MaxLen : Truncate(k)

TruncateNext == TamperEntry \/ TruncateLedger \/ verify_ledger

\* the audit of ledgers that are edited and cut short
SpecTruncate == AuditInit /\ [][TruncateNext]_vars

---------------------------------------------------------------------------
(* Concurrent callers (SpecConc): each writer runs log_to_ledger once, cut  *)
(* at its accesses to the ledger file; verify_ledger reads the file in      *)
(* between.  The ledger text is taken to fit the write buffer, so it        *)
(* reaches the file in one write when the with-block closes it.             *)

\* lines 43-62: read the previous hash, build the entry
BuildEntry(w, event_report, metadata, timestamp, prefix) ==
    /\ pc[w] = "idle"
    /\ LET previous_hash == get_previous_hash(file)
           entry == NewEntry(event_report, metadata, timestamp,
                             previous_hash, prefix)
       IN /\ prefix \in HexPrefixChoices(entry.integrity_hash)
          /\ loc' = [loc EXCEPT ![w] =
                        [previous_hash |-> previous_hash,
                         entry |-> entry,
                         ledger_data |-> <<>>]]
    /\ pc' = [pc EXCEPT ![w] = "built"]
    /\ out' = NoOut
    /\ UNCHANGED <<file, ret, modified, tampers, input, result, dash>>

\* lines 65-72: re-read the ledger file and append the entry in memory
LoadLedger(w) ==
    /\ pc[w] = "built"
    /\ loc' = [loc EXCEPT ![w].ledger_data =
                   SavedLedger(LoadLedgerData(file), loc[w].entry)]
    /\ pc' = [pc EXCEPT ![w] = "loaded"]
    /\ out' = NoOut
    /\ UNCHANGED <<file, ret, modified, tampers, input, result, dash>>

\* line 73: open(ledger_path, 'w') creates or truncates the file
OpenForWrite(w) ==
    /\ pc[w] = "loaded"
    /\ file' = EmptyFile
    /\ pc' = [pc EXCEPT ![w] = "opened"]
    /\ out' = NoOut
    /\ UNCHANGED <<ret, modified, tampers, loc, input, result, dash>>

\* the files a writer may leave when its text lands at offset 0 of file f:
\* on an empty file, its own ledger; over bytes another writer put there
\* since, its own ledger when its text covers them and trailing garbage
\* when it is shorter (same number of entries: either)
WrittenOver(f, ledger_data) ==
    IF f.state = "empty" \/ (f.state = "json" /\ f.entries = ledger_data)
    THEN {JsonFile(ledger_data)}
    ELSE IF f.state = "json" /\ Len(ledger_data) > Len(f.entries)
    THEN {JsonFile(ledger_data)}
    ELSE IF f.state = "json" /\ Len(ledger_data) < Len(f.entries)
    THEN {GarbledFile}
    ELSE {JsonFile(ledger_data), GarbledFile}

\* line 74 and the end of the with-block: json.dump, flush, close; then
\* lines 76-81, the PDF and the return
DumpAndClose(w, rendered) ==
    /\ pc[w] = "opened"
    /\ file' \in WrittenOver(file, loc[w].ledger_data)
    /\ pc' = [pc EXCEPT ![w] = "done"]
    /\ ret' = ReturnOf(rendered)
    /\ out' = NoOut
    /\ UNCHANGED <<modified, tampers, loc, input, result, dash>>

WriterStep ==
    \E w \in Writers :
        \/ \E r \in EventReports, t \in Timestamps, p \in HexPrefixes :
               BuildEntry(w, r, AuditMetadata, t, p)
        \/ LoadLedger(w)
        \/ OpenForWrite(w)
        \/ \E rendered \in BOOLEAN : DumpAndClose(w, rendered)

ConcNext == WriterStep \/ verify_ledger

SpecConc == Init /\ [][ConcNext]_vars

\* every writer has returned from log_to_ledger
AllDone == \A w \in Writers : pc[w] = "done"

---------------------------------------------------------------------------
(* anomaly_analysis.py *)

FEATURE_UNITS ==
    [Speed |-> "km/h", RPM |-> "RPM", Throttle |-> "%", Brake |-> "(On/Off)",
     nGear |-> "Gear", DRS |-> "State"]

\* the sentence get_dynamic_interpretation falls back to, per top feature
PrimaryDeviation ==
    [Speed |-> "The primary deviation was in Speed",
     RPM |-> "The primary deviation was in RPM",
     Throttle |-> "The primary deviation was in Throttle",
     Brake |-> "The primary deviation was in Brake",
     nGear |-> "The primary deviation was in nGear",
     DRS |-> "The primary deviation was in DRS"]

\* the feature names of a list of (feature_name, error_value) pairs
FeatureNameSet(top_features) ==
    {top_features[i][1] : i \in 1..Len(top_features)}

\* get_dynamic_interpretation(top_features): the sentences joined into the
\* text it returns, in order; each of the three if-groups adds at most one
get_dynamic_interpretation(top_features) ==
    IF top_features = <<>>
    THEN [text |-> "Could not determine a specific interpretation",
          interpretations |-> <<>>]
    ELSE LET names == FeatureNameSet(top_features)
             power == IF "RPM" \in names /\ "Throttle" \in names
                      THEN <<"High error in both RPM and Throttle">>
                      ELSE IF "RPM" \in names
                      THEN <<"A significant deviation in RPM">>
                      ELSE IF "Throttle" \in names
                      THEN <<"An anomaly in Throttle">>
                      ELSE <<>>
             braking == IF "Brake" \in names /\ "Speed" \in names
                        THEN <<"When Brake and Speed are flagged together">>
                        ELSE IF "Brake" \in names
                        THEN <<"Unusual Brake data">>
                        ELSE <<>>
             drs == IF "DRS" \in names THEN <<"A DRS anomaly">> ELSE <<>>
             matched == power \o braking \o drs
         IN [text |-> "Interpretation",
             interpretations |->
                 IF matched = <<>>
                 THEN <<PrimaryDeviation[top_features[1][1]]>>
                 ELSE matched]

\* generate_anomaly_explanation_text(anomaly_data); any other key of
\* anomaly_data is not read
generate_anomaly_explanation_text(anomaly_data) ==
    IF anomaly_data.top_features = <<>>
    THEN [kind |-> "Not enough data to generate a detailed explanation"]
    ELSE [kind |-> "Analysis of Anomaly",
          sequence_index |-> anomaly_data.sequence_index,
          end_index |-> anomaly_data.end_index,
          reconstruction_error |-> anomaly_data.reconstruction_error,
          threshold |-> anomaly_data.threshold,
          channels |-> [i \in 1..Len(anomaly_data.top_features) |->
                           <<anomaly_data.top_features[i][1],
                             FEATURE_UNITS[anomaly_data.top_features[i][1]]>>],
          interpretation |->
              get_dynamic_interpretation(anomaly_data.top_features)]

---------------------------------------------------------------------------
(* main.py, train_model.py: sliding windows and reconstruction errors.     *)
(* Numbers are exact fractions; the rounding of float32 is not modelled.   *)

\* window length of the trained model
TIMESTEPS == 10

\* sorted_feats[:3]
TopK == 3

\* longest telemetry input followed
MaxFrames == 11

\* the fields of TelemetryData, which are the DataFrame's columns in order
feature_names == <<"Speed", "RPM", "Throttle", "Brake", "nGear", "DRS">>

NumFeatures == Len(feature_names)

\* the fraction num/den (den > 0)
Frac(num, den) == [num |-> num, den |-> den]

FracEq(a, b) == a.num * b.den = b.num * a.den

FracGt(a, b) == a.num * b.den > b.num * a.den

Abs(x) == IF x < 0 THEN 0 - x ELSE x

RECURSIVE Sum(_)
\* the sum of a sequence of integers
Sum(xs) == IF xs = <<>> THEN 0 ELSE Head(xs) + Sum(Tail(xs))

\* the windows with the last one missing: range(len(data) - timesteps)
SlidingWindows_one_short(data, timesteps) ==
    [i \in 1..(IF Len(data) > timesteps THEN Len(data) - timesteps ELSE 0) |->
        SubSeq(data, i, i + timesteps - 1)]

\* main.py: [scaled_data[i:i + TIMESTEPS] for i in range(len - TIMESTEPS + 1)]
\* (element i of the list is element i+1 of the sequence)
SlidingWindows(data, timesteps) ==
    [i \in 1..(IF Len(data) >= timesteps THEN Len(data) - timesteps + 1 ELSE 0) |->
        SubSeq(data, i, i + timesteps - 1)]

\* train_model.py create_sequences(data, timesteps): the windows, or the
\* empty (0, timesteps, n_features) array when there is none; never raises
create_sequences(data, timesteps) ==
    LET n == Len(data) - timesteps + 1
        sequences == [i \in 1..(IF n > 0 THEN n ELSE 0) |->
                         [t \in 1..timesteps |-> data[i + t - 1]]]
    IN IF Len(sequences) = 0 THEN <<>> ELSE sequences

\* what model.predict returns for one window: the window, off by the signed
\* deviation of each feature at its first time step and by the opposite at
\* its last
Reconstruction(sequence, deviation) ==
    [t \in 1..Len(sequence) |->
        [j \in 1..NumFeatures |->
            IF t = 1 THEN sequence[t][j] + deviation[j]
            ELSE IF t = Len(sequence) THEN sequence[t][j] - deviation[j]
            ELSE sequence[t][j]]]

\* np.abs(sequences - reconstructed_sequences)[w, t, j]
AbsDiff(sequence, reconstructed, t, j) == Abs(sequence[t][j] - reconstructed[t][j])

\* np.mean(np.abs(sequences - reconstructed_sequences), axis=(1, 2))[w]
MeanAbsError(sequence, reconstructed) ==
    Frac(Sum([t \in 1..Len(sequence) |->
                 Sum([j \in 1..NumFeatures |->
                         AbsDiff(sequence, reconstructed, t, j)])]),
         Len(sequence) * NumFeatures)

\* the mean taken along the features instead: entry j is the error of time
\* step j
PerFeatureError_along_features(sequence, reconstructed, j) ==
    Frac(Sum([k \in 1..NumFeatures |-> AbsDiff(sequence, reconstructed, j, k)]),
         NumFeatures)

\* np.mean(np.abs(sequences - reconstructed_sequences), axis=1)[w, j]
PerFeatureError(sequence, reconstructed, j) ==
    Frac(Sum([t \in 1..Len(sequence) |-> AbsDiff(sequence, reconstructed, t, j)]),
         Len(sequence))

\* feature_error_map = {feature_names[j]: float(seq_err[j]) ...}
FeatureErrorMap(sequence, reconstructed) ==
    [name \in {feature_names[j] : j \in 1..NumFeatures} |->
        PerFeatureError(sequence, reconstructed,
                        CHOOSE j \in 1..NumFeatures : feature_names[j] = name)]

\* sorted(..., key=lambda kv: kv[1], reverse=True): item j of the dict comes
\* before item k when its error is larger, or equal and j is earlier in the
\* dict (the sort is stable, also with reverse=True)
SortsBefore(feature_error_map, j, k) ==
    \/ FracGt(feature_error_map[feature_names[j]], feature_error_map[feature_names[k]])
    \/ /\ FracEq(feature_error_map[feature_names[j]],
                 feature_error_map[feature_names[k]])
       /\ j < k

\* sorted_feats
SortedFeats(feature_error_map) ==
    [pos \in 1..NumFeatures |->
        LET j == CHOOSE j \in 1..NumFeatures :
                     Cardinality({k \in 1..NumFeatures :
                                     SortsBefore(feature_error_map, k, j)}) = pos - 1
        IN <<feature_names[j], feature_error_map[feature_names[j]]>>]

\* top_3_features
TopFeatures(feature_error_map) == SubSeq(SortedFeats(feature_error_map), 1, TopK)

\* the comparison with >= in place of >
IsAnomaly_or_equal(reconstruction_error, threshold) ==
    ~FracGt(threshold, reconstruction_error)

\* anomalies = reconstruction_error > threshold, for one window
IsAnomaly(reconstruction_error, threshold) ==
    FracGt(reconstruction_error, threshold)

\* an error response of /predict
ErrorResponse(error) == [op |-> "predict_anomaly", error |-> error]

\* explanation = ""
EmptyExplanation == [kind |-> ""]

\* the explanation built for every window, anomalous or not
ExplanationOf_every_window(anomalous, anomaly_report) ==
    generate_anomaly_explanation_text(anomaly_report)

\* explanation = ""; if anomalies[i]: explanation = generate_...(anomaly_report)
ExplanationOf(anomalous, anomaly_report) ==
    IF anomalous
    THEN generate_anomaly_explanation_text(anomaly_report)
    ELSE EmptyExplanation

\* predict_anomaly(data) from line 101 on: scaled_data is what
\* scaler.transform returned, deviations[w] tells what model.predict returns
\* for window w, threshold is the value loaded at startup
ScoreSequences(scaled_data, deviations, threshold) ==
    LET sequences == SlidingWindows(scaled_data, TIMESTEPS)
        windows == 1..Len(sequences)
        reconstructed_sequences ==
            [w \in windows |-> Reconstruction(sequences[w], deviations[w])]
        reconstruction_error ==
            [w \in windows |->
                MeanAbsError(sequences[w], reconstructed_sequences[w])]
        sequence_end_indices == [w \in windows |-> (w - 1) + TIMESTEPS - 1]
        anomalies == [w \in windows |-> IsAnomaly(reconstruction_error[w], threshold)]
        feature_errors_list ==
            [w \in windows |->
                FeatureErrorMap(sequences[w], reconstructed_sequences[w])]
        top_features_list ==
            [w \in windows |-> TopFeatures(feature_errors_list[w])]
        anomaly_report(w) ==
            [sequence_index |-> w - 1,
             end_index |-> sequence_end_indices[w],
             threshold |-> threshold,
             reconstruction_error |-> reconstruction_error[w],
             top_features |-> top_features_list[w],
             feature_errors |-> feature_errors_list[w]]
        explanations_list ==
            [w \in windows |-> ExplanationOf(anomalies[w], anomaly_report(w))]
    IN [op |-> "predict_anomaly",
        error |-> "none",
        sequences |-> sequences,
        reconstruction_error |-> reconstruction_error,
        is_anomaly |-> anomalies,
        threshold |-> threshold,
        sequence_end_indices |-> sequence_end_indices,
        feature_errors |-> feature_errors_list,
        top_features |-> top_features_list,
        explanations |-> explanations_list]

\* predict_anomaly(data): the response, with the local sequences
PredictResponse(i) ==
    IF i.fault = "not loaded"
    THEN ErrorResponse("Model, scaler, or threshold not loaded")
    ELSE IF Len(i.scaled_data) < TIMESTEPS
    THEN ErrorResponse("Not enough data provided")
    ELSE IF i.fault = "scaler"
    THEN ErrorResponse("Scaler transform failed")
    ELSE IF SlidingWindows(i.scaled_data, TIMESTEPS) = <<>>
    THEN ErrorResponse("Could not create any sequences")
    ELSE IF i.fault = "model"
    THEN ErrorResponse("Model prediction failed")
    ELSE ScoreSequences(i.scaled_data, i.deviations, i.threshold)

---------------------------------------------------------------------------
(* Scoring calls (SpecPredict): one telemetry input, scored by              *)
(* predict_anomaly and cut into windows by create_sequences                 *)

\* n rows of scaled telemetry, all different
Ramp(n) == [k \in 1..n |-> [j \in 1..NumFeatures |-> 10 * k + j]]

\* what the model gets wrong in a window, per feature in column order
Deviations ==
    { <<0, 0, 0, 0, 0, 0>>,
      <<3, 0 - 3, 1, 0, 0, 0>>,
      <<0, 4, 0 - 2, 0, 0, 1>>,
      <<0 - 2, 0, 0, 5, 1, 0>> }

\* values of models/threshold.json
Thresholds == {Frac(1, 20), Frac(7, 30)}

\* what fails in a call: nothing, the load at startup, scaler.transform, or
\* model.predict
Faults == {"none", "not loaded", "scaler", "model"}

\* the number of windows model.predict is asked about for n rows
NumWindows(n) == IF n >= TIMESTEPS THEN n - TIMESTEPS + 1 ELSE 0

PredictInputs ==
    UNION { { [kind |-> "telemetry", scaled_data |-> Ramp(n), deviations |-> d,
               threshold |-> th, fault |-> f] :
                 d \in [1..NumWindows(n) -> Deviations],
                 th \in Thresholds, f \in Faults }
            : n \in 0..MaxFrames }

PredictInit ==
    /\ file = NoFile
    /\ ret = "none"
    /\ out = NoOut
    /\ modified = FALSE
    /\ tampers = {}
    /\ pc = [w \in Writers |-> "idle"]
    /\ loc = [w \in Writers |-> NoLocals]
    /\ input \in PredictInputs
    /\ result = NoResult
    /\ dash = NoDash

\* one request POST /predict
predict_anomaly ==
    /\ input.kind = "telemetry"
    /\ result' = PredictResponse(input)
    /\ UNCHANGED <<file, ret, out, modified, tampers, pc, loc, input, dash>>

\* train_model.py main(), line 62: sequences = create_sequences(scaled_df, TIMESTEPS)
CreateSequences ==
    /\ input.kind = "telemetry"
    /\ result' = [op |-> "create_sequences", error |-> "none",
                  sequences |-> create_sequences(input.scaled_data, TIMESTEPS)]
    /\ UNCHANGED <<file, ret, out, modified, tampers, pc, loc, input, dash>>

PredictNext == predict_anomaly \/ CreateSequences

SpecPredict == PredictInit /\ [][PredictNext]_vars

---------------------------------------------------------------------------
(* Explanations (SpecExplain): generate_anomaly_explanation_text and        *)
(* get_dynamic_interpretation on the reports they may be given              *)

RECURSIVE DistinctLists(_, _)
\* the lists of at most n different elements of S
DistinctLists(S, n) ==
    IF n = 0 THEN {<<>>}
    ELSE {<<>>} \cup UNION { { <<x>> \o l : l \in DistinctLists(S \ {x}, n - 1) }
                             : x \in S }

\* ranked (feature_name, error_value) lists of up to TopK features
TopFeatureLists ==
    { [i \in 1..Len(l) |-> <<l[i], Frac(TopK + 1 - i, 10)>>] :
        l \in DistinctLists({feature_names[j] : j \in 1..NumFeatures}, TopK) }

\* raw physical values a report may carry beside the errors
SnapshotValues ==
    { [Speed |-> 150, RPM |-> 0, Throttle |-> 0, Brake |-> 0],
      [Speed |-> 150, RPM |-> 9000, Throttle |-> 80, Brake |-> 0] }

AnomalyReports ==
    { [kind |-> "anomaly_report", sequence_index |-> 0,
       end_index |-> TIMESTEPS - 1, threshold |-> Frac(1, 20),
       reconstruction_error |-> Frac(1, 2), top_features |-> tf,
       raw_snapshot |-> rs] :
        tf \in TopFeatureLists, rs \in SnapshotValues }

ExplainInit ==
    /\ file = NoFile
    /\ ret = "none"
    /\ out = NoOut
    /\ modified = FALSE
    /\ tampers = {}
    /\ pc = [w \in Writers |-> "idle"]
    /\ loc = [w \in Writers |-> NoLocals]
    /\ input \in AnomalyReports
    /\ result = NoResult
    /\ dash = NoDash

\* a call generate_anomaly_explanation_text(anomaly_data)
GenerateExplanation ==
    /\ input.kind = "anomaly_report"
    /\ result' = [op |-> "generate_anomaly_explanation_text",
                  explanation |-> generate_anomaly_explanation_text(input)]
    /\ UNCHANGED <<file, ret, out, modified, tampers, pc, loc, input, dash>>

\* a call get_dynamic_interpretation(top_features)
GetInterpretation ==
    /\ input.kind = "anomaly_report"
    /\ result' = [op |-> "get_dynamic_interpretation",
                  interpretation |-> get_dynamic_interpretation(input.top_features)]
    /\ UNCHANGED <<file, ret, out, modified, tampers, pc, loc, input, dash>>

ExplainNext == GenerateExplanation \/ GetInterpretation

SpecExplain == ExplainInit /\ [][ExplainNext]_vars

---------------------------------------------------------------------------
(* Properties of the sequential ledger (Spec) *)

\* every block of a run was printed "Verified!"
AllVerified(o) == \A i \in 1..Len(o.blocks) : o.blocks[i] = "Verified"

\* C1: after one or more log_to_ledger appends to an initially absent ledger,
\* with no other modification of the file, verify_ledger prints "Verified!"
\* for every entry and ends with the clean verdict.
C1_AppendsVerifyClean ==
    (~modified /\ file.entries # <<>> /\ out.verdict # "none")
        => (out.verdict = "Clean" /\ Len(out.blocks) = Len(file.entries)
            /\ AllVerified(out))

\* C2: every entry written by log_to_ledger stores as integrity_hash the hash
\* that verification re-derives from the stored entry: the hash of the
\* verifier's field set of the entry, concatenated with its previous_hash.
C2_HashRoundTrip ==
    ~modified =>
        \A i \in 1..Len(file.entries) :
            file.entries[i].integrity_hash =
                generate_chained_hash(verification_data(file.entries[i]),
                                      file.entries[i].previous_hash)

\* C3: in every ledger built by sequential log_to_ledger calls from an absent
\* ledger, entry 1 links to the all-zero genesis hash (the one the verifier
\* starts from) and every later entry links to the integrity_hash of the
\* entry stored right before it.
C3_ChainLinkage ==
    ~modified =>
        \A i \in 1..Len(file.entries) :
            file.entries[i].previous_hash =
                (IF i = 1 THEN VerifierGenesisHash
                 ELSE file.entries[i - 1].integrity_hash)

\* C3 witness: two appended entries, the second linked to the first
C3_Witness ==
    /\ ~modified
    /\ Len(file.entries) >= 2
    /\ file.entries[1].previous_hash = GenesisHash
    /\ file.entries[2].previous_hash = file.entries[1].integrity_hash
    /\ file.entries[2].previous_hash # GenesisHash

\* C5: a log_to_ledger call that finds the ledger file present but not
\* parseable fails with LedgerCorruptionError and leaves the file as it is.
C5_CorruptLedgerRefused ==
    [][(Exists(file) /\ ~Parses(file) /\ LogToLedger)
         => (file' = file /\ ret' = "LedgerCorruptionError")]_vars

\* C8: a log_to_ledger call on a ledger that parses keeps every stored entry,
\* in order, and adds exactly one entry at the end.
C8_AppendOnly ==
    [][(Parses(file) /\ LogToLedger)
         => (/\ Parses(file')
             /\ Len(file'.entries) = Len(file.entries) + 1
             /\ SubSeq(file'.entries, 1, Len(file.entries)) = file.entries)]_vars

\* C8 witness: a second entry was appended behind a stored first one
C8_Witness ==
    /\ ret = "returned"
    /\ Parses(file)
    /\ Len(file.entries) = 2
    /\ file.entries[1] # file.entries[2]

---------------------------------------------------------------------------
(* Properties of the audit (SpecAudit) *)

\* the entries edited so far
TamperedEntries == {t[1] : t \in tampers}

\* the first edited entry
FirstTampered == CHOOSE i \in TamperedEntries : \A j \in TamperedEntries : i <= j

\* the fields edited so far
TamperedFields == {t[2] : t \in tampers}

\* the run stopped at entry i with outcome kind and the failure verdict
CompromisedAt(o, i, kind) ==
    /\ o.verdict = "Compromised"
    /\ Len(o.blocks) = i
    /\ o.blocks[i] = kind
    /\ \A k \in 1..(i - 1) : o.blocks[k] = "Verified"

\* C4 (as claimed): editing any part of the payload of stored entries of a
\* clean ledger (raw_snapshot and metadata included), hashes untouched,
\* makes verify_ledger report tampering at the first edited entry.
C4_AnyPayloadEditDetected ==
    (tampers # {} /\ TamperedFields \subseteq (HashedFields \cup UnhashedFields)
        /\ out.verdict # "none")
        => CompromisedAt(out, FirstTampered, "Tampering")

\* C4 (amended): editing timestamp, classification, severity or top_features
\* of stored entries of a clean ledger, hashes untouched, makes verify_ledger
\* report tampering at the first edited entry; edits of the other stored
\* fields alone (raw_snapshot, metadata) leave the verdict clean.
C4_HashedFieldEditDetected ==
    /\ (tampers # {} /\ TamperedFields \subseteq HashedFields /\ out.verdict # "none")
          => CompromisedAt(out, FirstTampered, "Tampering")
    /\ (tampers # {} /\ TamperedFields \subseteq UnhashedFields /\ out.verdict # "none")
          => (out.verdict = "Clean" /\ Len(out.blocks) = Len(file.entries))

\* C4 witness: the severity of entry 2 was edited and the run reported it
C4_Witness ==
    /\ tampers = {<<2, "severity">>}
    /\ out.verdict = "Compromised"
    /\ out.blocks = <<"Verified", "Tampering">>

\* C9: when the first edited entry of a clean ledger has its previous_hash
\* altered (alone, or together with its payload or its integrity_hash),
\* verify_ledger reports a broken link at that entry, not tampering, and
\* ends with the failure verdict.
C9_BrokenLinkReported ==
    (tampers # {} /\ out.verdict # "none"
        /\ <<FirstTampered, "previous_hash">> \in tampers)
        => CompromisedAt(out, FirstTampered, "BrokenLink")

\* the link check of entry i: previous_hash is the hash carried from entry i-1
LinkOk(ledger, i) ==
    ledger[i].previous_hash =
        (IF i = 1 THEN VerifierGenesisHash ELSE ledger[i - 1].integrity_hash)

\* the hash check of entry i
HashOk(ledger, i) ==
    ledger[i].integrity_hash =
        generate_chained_hash(verification_data(ledger[i]), ledger[i].previous_hash)

\* the entries that fail a check
Failing(ledger) == {i \in 1..Len(ledger) : ~LinkOk(ledger, i) \/ ~HashOk(ledger, i)}

\* C10: a run over a ledger that parses prints one outcome per entry in
\* order up to the first entry failing its link or hash check and nothing
\* after it; every entry before it is "Verified"; the verdict is clean
\* exactly when no entry fails, and then every entry was checked.
C10_StopsAtFirstFailure ==
    (Parses(file) /\ out.verdict # "none") =>
        LET bad == Failing(file.entries)
            first == CHOOSE i \in bad : \A j \in bad : i <= j
        IN /\ (out.verdict = "Clean") <=> (bad = {})
           /\ bad = {} => (Len(out.blocks) = Len(file.entries) /\ AllVerified(out))
           /\ bad # {} =>
                /\ Len(out.blocks) = first
                /\ \A k \in 1..(first - 1) : out.blocks[k] = "Verified"
                /\ out.blocks[first] =
                       (IF LinkOk(file.entries, first) THEN "Tampering"
                        ELSE "BrokenLink")

\* C10 witness: entry 1 of two fails its hash check and entry 2, which has
\* a broken link, is never looked at
C10_Witness ==
    /\ Len(file.entries) = 2
    /\ Failing(file.entries) = {1, 2}
    /\ out.blocks = <<"Tampering">>
    /\ out.verdict = "Compromised"

---------------------------------------------------------------------------
(* Properties of concurrent callers (SpecConc) *)

\* C6: once all NumWriters concurrent log_to_ledger calls on an absent
\* ledger have returned, the file holds a chain of exactly NumWriters
\* entries, no two of them with the same previous_hash.
C6_ConcurrentAppendsAllKept ==
    AllDone =>
        /\ Parses(file)
        /\ Len(file.entries) = NumWriters
        /\ \A i, j \in 1..Len(file.entries) :
               i # j => file.entries[i].previous_hash # file.entries[j].previous_hash

\* C7: a verify_ledger run concurrent with log_to_ledger calls never finds
\* a ledger file that does not parse (empty, truncated or partly written):
\* it reads the ledger before an append or with the whole new entry.
C7_ReaderNeverSeesPartialFile ==
    out.verdict # "Corrupt"

---------------------------------------------------------------------------
(* Further properties of the audit (SpecAudit) *)

\* C11: a verify_ledger run, whatever it prints (clean, broken link,
\* tampering, file not found, file not valid JSON), leaves the stored
\* ledger file exactly as it was.
C11_VerifyReadOnly ==
    [][(out'.verdict # "none") => (file' = file)]_vars

\* C11 witness: a run stopped at a broken link in entry 1 and the file still
\* holds both entries
C11_Witness ==
    /\ out.verdict = "TypeError"
    /\ out.blocks = <<"BrokenLink">>
    /\ Len(file.entries) = 2

---------------------------------------------------------------------------
(* Further properties of the sequential ledger (Spec) *)

\* C12: the entry is saved before the evidence PDF is rendered: when
\* log_to_ledger ends with a failure of generate_professional_pdf, the ledger
\* file holds the entries it held plus the new entry, exactly as a call
\* whose rendering succeeds leaves it, and so verifies the same.
C12_EntryKeptOnRenderFailure ==
    [][(LogToLedger /\ ret' = "RenderError") =>
          \E r \in EventReports, m \in Metadatas, t \in Timestamps,
             p \in HexPrefixes :
              LET entry == NewEntry(r, m, t, get_previous_hash(file), p)
                  saved == JsonFile(Append(LoadLedgerData(file),
                                           StoredEntry(entry)))
              IN /\ file' = saved
                 /\ VerifyOutput(file') = VerifyOutput(saved)]_vars

\* C12 witness: the second append ended in a rendering error, the ledger
\* holds both entries and has been verified since
C12_Witness ==
    /\ ret = "RenderError"
    /\ Parses(file)
    /\ Len(file.entries) = 2
    /\ out.verdict # "none"

\* C13: no two entries of the ledger have the same id.
C13_EntryIdsUnique ==
    Parses(file) =>
        \A i, j \in 1..Len(file.entries) :
            i # j => file.entries[i].id # file.entries[j].id

---------------------------------------------------------------------------
(* Properties of the scoring calls (SpecPredict) *)

\* sequences are the windows of data: one per start row, each the
\* TIMESTEPS consecutive rows from there
WindowsOf(sequences, data) ==
    /\ Len(sequences) = Len(data) - TIMESTEPS + 1
    /\ \A i \in 0..(Len(data) - TIMESTEPS) :
          /\ Len(sequences[i + 1]) = TIMESTEPS
          /\ \A t \in 0..(TIMESTEPS - 1) :
                sequences[i + 1][t + 1] = data[i + t + 1]

\* C14: for an input of N >= TIMESTEPS rows, predict_anomaly and
\* create_sequences build exactly N-TIMESTEPS+1 windows, window i (from 0)
\* being rows i..i+TIMESTEPS-1, and predict_anomaly reports end index
\* i+TIMESTEPS-1 for it.
C14_WindowConstruction ==
    /\ (/\ result.op = "predict_anomaly"
        /\ input.fault = "none"
        /\ Len(input.scaled_data) >= TIMESTEPS)
         => /\ result.error = "none"
            /\ WindowsOf(result.sequences, input.scaled_data)
            /\ Len(result.sequence_end_indices) = Len(result.sequences)
            /\ \A i \in 0..(Len(input.scaled_data) - TIMESTEPS) :
                  result.sequence_end_indices[i + 1] = i + TIMESTEPS - 1
    /\ (/\ result.op = "create_sequences"
        /\ Len(input.scaled_data) >= TIMESTEPS)
         => WindowsOf(result.sequences, input.scaled_data)

\* C14 witness: eleven rows were scored as two windows ending at rows 9, 10
C14_Witness ==
    /\ result.op = "predict_anomaly"
    /\ result.error = "none"
    /\ Len(input.scaled_data) = TIMESTEPS + 1
    /\ Len(result.sequences) = 2
    /\ result.sequence_end_indices = <<TIMESTEPS - 1, TIMESTEPS>>

\* C15: with fewer than TIMESTEPS rows the window builder fails with the
\* not-enough-data error (an empty list of windows is never returned as a
\* success); with exactly TIMESTEPS rows it builds one window.
C15_InsufficientDataFails ==
    /\ (result.op = "predict_anomaly" /\ input.fault = "none")
         => /\ Len(input.scaled_data) < TIMESTEPS
                 => result.error = "Not enough data provided"
            /\ Len(input.scaled_data) = TIMESTEPS
                 => (result.error = "none" /\ Len(result.sequences) = 1)
    /\ result.op = "create_sequences"
         => /\ Len(input.scaled_data) < TIMESTEPS
                 => result.error = "Not enough data provided"
            /\ Len(input.scaled_data) = TIMESTEPS
                 => (result.error = "none" /\ Len(result.sequences) = 1)

\* the order of the feature names as strings
LexicalOrder == <<"Brake", "DRS", "RPM", "Speed", "Throttle", "nGear">>

LexicalIndex(name) == CHOOSE k \in 1..Len(LexicalOrder) : LexicalOrder[k] = name

\* feature a ranks before feature b: larger error, or equal error and the
\* lexically smaller name
RanksBefore(errors, a, b) ==
    \/ FracGt(errors[a], errors[b])
    \/ FracEq(errors[a], errors[b]) /\ LexicalIndex(a) < LexicalIndex(b)

\* C16: top_features of every window lists the TopK features of largest
\* error in descending order, features of equal error in lexical order of
\* their names.
C16_TopFeaturesRanked ==
    (result.op = "predict_anomaly" /\ result.error = "none") =>
        \A w \in 1..Len(result.top_features) :
            LET top == result.top_features[w]
                errors == result.feature_errors[w]
                chosen == {top[a][1] : a \in 1..Len(top)}
            IN /\ Len(top) = TopK
               /\ \A a \in 1..Len(top) : top[a][2] = errors[top[a][1]]
               /\ \A a, b \in 1..Len(top) :
                     a < b => RanksBefore(errors, top[a][1], top[b][1])
               /\ \A a \in chosen, b \in (DOMAIN errors) \ chosen :
                     RanksBefore(errors, a, b)

FracAdd(a, b) ==
    IF a.den = b.den THEN Frac(a.num + b.num, a.den)
    ELSE Frac(a.num * b.den + b.num * a.den, a.den * b.den)

RECURSIVE FracSum(_)
FracSum(fs) == IF fs = <<>> THEN Frac(0, 1) ELSE FracAdd(Head(fs), FracSum(Tail(fs)))

\* the mean of the values of a per-feature error map
MeanOfFeatureErrors(errors) ==
    LET total == FracSum([j \in 1..NumFeatures |-> errors[feature_names[j]]])
    IN Frac(total.num, total.den * NumFeatures)

\* C17: for every window the scalar reconstruction error equals the mean
\* over the features of the per-feature errors, and the per-feature error
\* map has exactly the six telemetry channels as keys.
C17_ErrorConsistency ==
    (result.op = "predict_anomaly" /\ result.error = "none") =>
        \A w \in 1..Len(result.reconstruction_error) :
            /\ DOMAIN result.feature_errors[w]
                 = {"Speed", "RPM", "Throttle", "Brake", "nGear", "DRS"}
            /\ FracEq(result.reconstruction_error[w],
                      MeanOfFeatureErrors(result.feature_errors[w]))

\* C17 witness: a window with error 16/60, of which Brake has 10/10
C17_Witness ==
    /\ result.op = "predict_anomaly"
    /\ result.error = "none"
    /\ FracEq(result.reconstruction_error[1], Frac(4, 15))
    /\ FracEq(result.feature_errors[1]["Brake"], Frac(1, 1))
    /\ FracEq(result.feature_errors[1]["DRS"], Frac(0, 1))

\* C18: a window is flagged exactly when its reconstruction error is
\* strictly above the threshold (equal is not anomalous), the threshold
\* being the one loaded value for all windows of the response.
C18_StrictThreshold ==
    (result.op = "predict_anomaly" /\ result.error = "none") =>
        /\ result.threshold = input.threshold
        /\ Len(result.is_anomaly) = Len(result.reconstruction_error)
        /\ \A w \in 1..Len(result.reconstruction_error) :
              result.is_anomaly[w]
                  <=> FracGt(result.reconstruction_error[w], input.threshold)

\* C18 witness: of two windows the first has exactly the threshold as error
\* and is not flagged, the second is above and flagged
C18_Witness ==
    /\ result.op = "predict_anomaly"
    /\ result.error = "none"
    /\ Len(result.is_anomaly) = 2
    /\ FracEq(result.reconstruction_error[1], result.threshold)
    /\ ~result.is_anomaly[1]
    /\ result.is_anomaly[2]

---------------------------------------------------------------------------
(* Properties of the explanations (SpecExplain) *)

\* the sentences of the rules (every sentence but the fallback's)
RuleSentences ==
    {"High error in both RPM and Throttle", "A significant deviation in RPM",
     "An anomaly in Throttle", "When Brake and Speed are flagged together",
     "Unusual Brake data", "A DRS anomaly"}

\* some rule's condition holds of the feature names
SomeRuleMatches(names) ==
    names \cap {"RPM", "Throttle", "Brake", "DRS"} # {}

\* C19: for every non-empty list of top features the rule engine returns
\* exactly one outcome, never several matched rules together, and the
\* fallback exactly when no rule matched.
C19_ExactlyOneOutcome ==
    (result.op = "get_dynamic_interpretation" /\ input.top_features # <<>>) =>
        LET given == result.interpretation.interpretations
        IN /\ Len(given) = 1
           /\ (given[1] \notin RuleSentences)
                  <=> ~SomeRuleMatches(FeatureNameSet(input.top_features))

\* the sensor-dropout condition on the raw values
SensorDropoutCondition(raw_snapshot, names) ==
    /\ raw_snapshot.Speed > 100
    /\ \/ raw_snapshot.RPM = 0
       \/ ("Throttle" \in names /\ raw_snapshot.Throttle = 0)

\* C20: when the raw snapshot shows a sensor dropout, the outcome is the
\* sensor dropout and not the RPM-and-Throttle (traction loss) rule, as for
\* top features [RPM, Throttle, Speed] with Speed 150, RPM 0, Throttle 0.
C20_SensorDropoutFirst ==
    (/\ result.op = "generate_anomaly_explanation_text"
     /\ result.explanation.kind = "Analysis of Anomaly"
     /\ SensorDropoutCondition(input.raw_snapshot,
                               FeatureNameSet(input.top_features)))
      => \A k \in 1..Len(result.explanation.interpretation.interpretations) :
             result.explanation.interpretation.interpretations[k]
                 # "High error in both RPM and Throttle"

---------------------------------------------------------------------------
(* Further properties of the scoring calls (SpecPredict) *)

\* C21: when the scorer (model.predict) fails, the request is not aborted
\* as a whole: the response still carries one result per window, the failed
\* ones marked as failed and not as non-anomalous.
C21_ScorerFailureKeepsBatch ==
    (/\ result.op = "predict_anomaly"
     /\ input.fault = "model"
     /\ Len(input.scaled_data) >= TIMESTEPS)
      => /\ result.error # "Model prediction failed"
         /\ Len(result.is_anomaly) = NumWindows(Len(input.scaled_data))

\* C22: in the response of predict_anomaly the explanation of window i is
\* non-empty exactly when is_anomaly[i] is true, and it is built from that
\* window's own sequence index, end index, reconstruction error, threshold
\* and top three features.
C22_ExplanationIffAnomaly ==
    (result.op = "predict_anomaly" /\ result.error = "none") =>
        /\ Len(result.explanations) = Len(result.is_anomaly)
        /\ \A w \in 1..Len(result.is_anomaly) :
              LET explanation == result.explanations[w]
              IN /\ (explanation # EmptyExplanation) <=> result.is_anomaly[w]
                 /\ result.is_anomaly[w] =>
                       /\ explanation.kind = "Analysis of Anomaly"
                       /\ explanation.sequence_index = w - 1
                       /\ explanation.end_index = result.sequence_end_indices[w]
                       /\ explanation.reconstruction_error
                            = result.reconstruction_error[w]
                       /\ explanation.threshold = result.threshold
                       /\ Len(explanation.channels) = TopK
                       /\ \A a \in 1..TopK :
                             explanation.channels[a][1]
                                 = result.top_features[w][a][1]

\* C22 witness: of two windows the first is not anomalous and has no
\* explanation, the second is anomalous and explained by Brake, Speed, nGear
C22_Witness ==
    /\ result.op = "predict_anomaly"
    /\ result.error = "none"
    /\ Len(result.is_anomaly) = 2
    /\ ~result.is_anomaly[1]
    /\ result.explanations[1] = EmptyExplanation
    /\ result.is_anomaly[2]
    /\ result.explanations[2].end_index = TIMESTEPS
    /\ result.explanations[2].channels[1][1] = "Brake"

---------------------------------------------------------------------------
(* Properties of the audit of unreadable and of shortened ledgers *)

\* C25: verify_ledger gives no clean verdict for a ledger it could not
\* read: a missing file is reported as not found and a file that is not
\* valid JSON as an error, both without the final verdict; a readable ledger
\* with no entries is reported clean.
C25_UnreadableNeverClean ==
    (out.verdict # "none") =>
        /\ ~Exists(file) => out = [verdict |-> "NotFound", blocks |-> <<>>]
        /\ (Exists(file) /\ ~Parses(file))
              => out = [verdict |-> "Corrupt", blocks |-> <<>>]
        /\ (Parses(file) /\ file.entries = <<>>)
              => out = [verdict |-> "Clean", blocks |-> <<>>]

\* C25 witness: a ledger that was damaged has been run through verify_ledger
C25_Witness ==
    /\ file = GarbledFile
    /\ modified
    /\ out.verdict = "Corrupt"

\* file g holds a proper prefix of the entries of file f
ProperPrefix(g, f) ==
    /\ Parses(f)
    /\ Parses(g)
    /\ Len(g.entries) < Len(f.entries)
    /\ g.entries = SubSeq(f.entries, 1, Len(g.entries))

\* C26: removing the last k entries of a ledger that verifies clean leaves
\* a ledger that verifies clean, down to the empty ledger.
C26_TruncationUndetected ==
    [][(out.verdict = "Clean" /\ ProperPrefix(file', file))
          => VerifyOutput(file').verdict = "Clean"]_vars

\* C26 witness: a ledger was cut down to its first entry, nothing else was
\* changed, and verify_ledger has reported it clean
C26_Witness ==
    /\ tampers = {<<2, "truncated">>}
    /\ Len(file.entries) = 1
    /\ out = [verdict |-> "Clean", blocks |-> <<"Verified">>]


(***************************************************************************)
(* data_collection.py: what collect_telemetry_data hands to its callers.   *)
(* A dataframe is kept as its number of rows and whether it carries the    *)
(* six feature columns; None is the dataframe of -1 rows.                  *)
(***************************************************************************)
NoneDf == [rows |-> 0 - 1, complete |-> FALSE]

IsNone(df) == df.rows < 0

Telemetry(n, complete) == [rows |-> n, complete |-> complete]

NoError == "None"

NoSectorInfo == [sectors |-> "None"]

SectorInfo == [sectors |-> "sector boundaries"]

\* lengths of the fastest lap's telemetry
LapLengths == {TIMESTEPS - 1, TIMESTEPS, MaxFrames + 1}

CollectorErrors ==
    { "Driver 'PER' not found.",
      "No valid lap time found for driver 'PER'.",
      "session data unavailable" }

\* every return statement of collect_telemetry_data yields three values;
\* the dataframe it returns is cut down to required_columns, which hold
\* the six feature columns
collect_telemetry_data ==
    { <<Telemetry(n, TRUE), NoError, SectorInfo>> : n \in LapLengths }
      \cup { <<NoneDf, e, NoSectorInfo>> : e \in CollectorErrors }

\* a, b = r  succeeds only on a sequence of two values
UnpackFails(r) == Len(r) # 2

ValueError == "too many values to unpack (expected 2)"

(***************************************************************************)
(* main.py: POST /load_data.  The unpacking, the error check and the        *)
(* conversion all sit in one try block whose  except Exception  answers    *)
(* 500 with str(e); HTTPException is an Exception.                         *)
(***************************************************************************)
HttpError(status_code, detail) ==
    [op |-> "load_race_data", status_code |-> status_code,
     detail |-> detail, records |-> 0]

load_race_data(r) ==
    IF UnpackFails(r)
      THEN HttpError(500, ValueError)
      ELSE IF r[2] # NoError
             THEN HttpError(500, "str(HTTPException(400))")
             ELSE IF IsNone(r[1])
                    THEN HttpError(500, "'NoneType' object has no attribute 'columns'")
                    ELSE [op |-> "load_race_data", status_code |-> 200,
                          detail |-> "", records |-> r[1].rows]

(***************************************************************************)
(* dashboard.py.  Streamlit runs the script from the top on every          *)
(* interaction; st.session_state outlives the runs.  A run executes the    *)
(* handler of the pressed button and then the main section; an interaction *)
(* arriving while the loop is running stops that run where it stands.      *)
(***************************************************************************)
MaxClicks == 3

InitialSession ==
    [telemetry_df |-> NoneDf, anomaly_indices |-> <<>>,
     is_running |-> FALSE, current_step |-> TIMESTEPS - 1]

\* A handler is followed up to its next write of st.session_state: a rerun
\* request stops the script at a session_state access or an st.* call, so
\* the session can be left as it stands between any two writes.  Each
\* operator below gives the session after one such stretch, the status line
\* and the place the run has reached: a line of the script, or "main" when
\* the handler has nothing left to write.

\* download_and_prepare, lines 61-66: collect, unpack, check the error
\* message, store the dataframe
download_and_prepare(ss, r) ==
    IF UnpackFails(r)
      THEN [session_state |-> ss, status |-> ValueError,
            at |-> "main", raised |-> TRUE]
      ELSE IF r[2] # NoError
             THEN [session_state |-> ss, status |-> r[2],
                   at |-> "main", raised |-> FALSE]
             ELSE [session_state |-> [ss EXCEPT !.telemetry_df = r[1]],
                   status |-> "", at |-> "line 69", raised |-> FALSE]

\* download_and_prepare, lines 68-77: without the feature columns the
\* telemetry is dropped and the handler is over; with them the anomaly list
\* is emptied
CheckColumns(ss) ==
    IF ~ ss.telemetry_df.complete
      THEN [session_state |-> [ss EXCEPT !.telemetry_df = NoneDf],
            status |-> "Telemetry missing expected columns",
            at |-> "main", raised |-> FALSE]
      ELSE [session_state |-> [ss EXCEPT !.anomaly_indices = <<>>],
            status |-> "", at |-> "line 78", raised |-> FALSE]

\* download_and_prepare, lines 78-80, and the test  ok and auto_start
ResetStep(ss, auto_start) ==
    [session_state |-> [ss EXCEPT !.current_step = TIMESTEPS - 1],
     status |-> "Telemetry downloaded and ready.",
     at |-> IF auto_start THEN "line 133" ELSE "main", raised |-> FALSE]

\* line 133 of the Download button
AutoStart(ss) ==
    [session_state |-> [ss EXCEPT !.is_running = TRUE],
     status |-> "Telemetry downloaded and ready.",
     at |-> "main", raised |-> FALSE]

\* the Start button without the test of line 136
StartHandler_unguarded(ss) ==
    [session_state |-> [ss EXCEPT !.is_running = TRUE],
     status |-> "", at |-> "main", raised |-> FALSE]

\* the Start button
StartHandler(ss) ==
    IF IsNone(ss.telemetry_df)
      THEN [session_state |-> ss,
            status |-> "No telemetry loaded. Download first.",
            at |-> "main", raised |-> FALSE]
      ELSE [session_state |-> [ss EXCEPT !.is_running = TRUE],
            status |-> "", at |-> "main", raised |-> FALSE]

\* the Stop / Reset button, line 142
StopHandler(ss) ==
    [session_state |-> [ss EXCEPT !.is_running = FALSE],
     status |-> "", at |-> "line 143", raised |-> FALSE]

\* line 143
StopTelemetry(ss) ==
    [session_state |-> [ss EXCEPT !.telemetry_df = NoneDf],
     status |-> "", at |-> "line 144", raised |-> FALSE]

\* line 144
StopAnomalies(ss) ==
    [session_state |-> [ss EXCEPT !.anomaly_indices = <<>>],
     status |-> "", at |-> "line 145", raised |-> FALSE]

\* lines 145-146
StopStep(ss) ==
    [session_state |-> [ss EXCEPT !.current_step = TIMESTEPS - 1],
     status |-> "Stopped and reset.", at |-> "main", raised |-> FALSE]

\* no button pressed: a widget changed and the script runs again
NoHandler(ss) ==
    [session_state |-> ss, status |-> "", at |-> "main", raised |-> FALSE]

\* build_plots(upto_index) reads the feature columns and looks up the rows
\* of the recorded anomalies up to upto_index; a missing column or a
\* recorded index beyond the dataframe is a KeyError
PlotsRaise(ss, upto_index) ==
    \/ ~ ss.telemetry_df.complete
    \/ \E i \in 1..Len(ss.anomaly_indices) :
          /\ ss.anomaly_indices[i] <= upto_index
          /\ ss.anomaly_indices[i] >= ss.telemetry_df.rows

\* the main section from line 149 to the head of the loop
MainSection(h) ==
    IF IsNone(h.session_state.telemetry_df)
      THEN [status |-> "Download a lap to begin simulation.",
            pc |-> "idle", idx |-> 0]
      ELSE IF PlotsRaise(h.session_state, h.session_state.current_step)
             THEN [status |-> "KeyError", pc |-> "idle", idx |-> 0]
             ELSE IF h.session_state.is_running
                    THEN [status |-> h.status, pc |-> "loop",
                          idx |-> h.session_state.current_step + 1]
                    ELSE [status |-> h.status, pc |-> "idle", idx |-> 0]

\* where the run stands after the stretch h of a handler
Proceed(h) ==
    IF h.raised
      THEN [status |-> h.status, pc |-> "idle", idx |-> 0]
      ELSE IF h.at # "main"
             THEN [status |-> h.status, pc |-> h.at, idx |-> 0]
             ELSE MainSection(h)

\* an interaction: the run in progress, if any, is stopped where it stands
\* and a new run of the script starts with the handler of the pressed button
ScriptRun(button, h, collected, auto_start) ==
    LET m == Proceed(h)
        fresh == button = "Download" /\ h.at = "line 69"
    IN  /\ dash.pc # "closed"
        /\ dash.clicks < MaxClicks
        /\ dash' = [session_state |-> h.session_state,
                    status |-> m.status,
                    pc |-> m.pc,
                    idx |-> m.idx,
                    clicks |-> dash.clicks + 1,
                    button |-> button,
                    collected |-> collected,
                    auto_start |-> auto_start,
                    sent |-> IF fresh THEN <<>> ELSE dash.sent,
                    interrupted |-> IF fresh
                                      THEN FALSE
                                      ELSE dash.interrupted \/ dash.pc # "idle"]
        /\ UNCHANGED <<file, ret, out, modified, tampers, pc, loc, input, result>>

\* the run goes on with the next stretch h of its handler
HandlerStep(line, h) ==
    LET m == Proceed(h)
    IN  /\ dash.pc = line
        /\ dash' = [dash EXCEPT !.session_state = h.session_state,
                                !.status = m.status,
                                !.pc = m.pc,
                                !.idx = m.idx]
        /\ UNCHANGED <<file, ret, out, modified, tampers, pc, loc, input, result>>

Download(r, auto_start) ==
    ScriptRun("Download", download_and_prepare(dash.session_state, r),
              [df |-> r[1], error |-> r[2]], auto_start)

DownloadCheck == HandlerStep("line 69", CheckColumns(dash.session_state))

DownloadReset ==
    HandlerStep("line 78", ResetStep(dash.session_state, dash.auto_start))

DownloadAutoStart == HandlerStep("line 133", AutoStart(dash.session_state))

Start ==
    ScriptRun("Start", StartHandler(dash.session_state), dash.collected, FALSE)

StopReset ==
    ScriptRun("Stop / Reset", StopHandler(dash.session_state),
              dash.collected, FALSE)

StopClearTelemetry == HandlerStep("line 143", StopTelemetry(dash.session_state))

StopClearAnomalies == HandlerStep("line 144", StopAnomalies(dash.session_state))

StopResetStep == HandlerStep("line 145", StopStep(dash.session_state))

Rerun == ScriptRun("", NoHandler(dash.session_state), dash.collected, FALSE)

\* the scorer's answer to one window: send_window_and_check_anomaly yields
\* is_anom only for a reply whose is_anomaly list starts with true
ScorerReplies == {"anomaly", "normal", "failed"}

\* the rows  iloc[idx - TIMESTEPS + 1 : idx + 1]  of a dataframe of n rows
WindowRows(idx, n) ==
    LET lo == IF idx - TIMESTEPS + 1 < 0 THEN 0 ELSE idx - TIMESTEPS + 1
        hi == IF idx + 1 > n THEN n ELSE idx + 1
    IN  IF hi > lo THEN hi - lo ELSE 0

\* the loop body up to the next access of st.session_state: build the
\* window ending at idx and post it; a request that fails writes the status
\* line (line 97); an anomalous reply takes the run to the append of line
\* 181, any other reply to line 183
SendWindow(reply) ==
    /\ dash.pc = "loop"
    /\ dash.idx < dash.session_state.telemetry_df.rows
    /\ dash.session_state.is_running
    /\ dash' = [dash EXCEPT
                  !.sent = Append(@, [end_index |-> dash.idx,
                                      rows |-> WindowRows(dash.idx,
                                          dash.session_state.telemetry_df.rows)]),
                  !.status = IF reply = "failed"
                               THEN "API request failed" ELSE @,
                  !.pc = IF reply = "anomaly" THEN "line 181" ELSE "appended"]
    /\ UNCHANGED <<file, ret, out, modified, tampers, pc, loc, input, result>>

\* line 181: the index of the anomalous window is recorded
RecordAnomaly ==
    /\ dash.pc = "line 181"
    /\ dash' = [dash EXCEPT
                  !.session_state.anomaly_indices = Append(@, dash.idx),
                  !.pc = "appended"]
    /\ UNCHANGED <<file, ret, out, modified, tampers, pc, loc, input, result>>

SimSend == \E reply \in ScorerReplies : SendWindow(reply)

\* the rest of the loop body: current_step = idx, the status line, the plots
Advance ==
    /\ dash.pc = "appended"
    /\ dash' = [dash EXCEPT !.session_state.current_step = dash.idx,
                            !.status = "Step",
                            !.idx = dash.idx + 1,
                            !.pc = "loop"]
    /\ UNCHANGED <<file, ret, out, modified, tampers, pc, loc, input, result>>

\* the loop has run out of indices
Finish ==
    /\ dash.pc = "loop"
    /\ dash.idx >= dash.session_state.telemetry_df.rows
    /\ dash' = [dash EXCEPT !.session_state.is_running = FALSE,
                            !.status = "Simulation finished.",
                            !.pc = "idle"]
    /\ UNCHANGED <<file, ret, out, modified, tampers, pc, loc, input, result>>

\* a client of the service asks POST /load_data
LoadRaceData ==
    \E r \in collect_telemetry_data :
        /\ result' = load_race_data(r)
        /\ input' = [kind |-> "collected", df |-> r[1], error |-> r[2]]
        /\ UNCHANGED <<file, ret, out, modified, tampers, pc, loc, dash>>

DashStart ==
    [session_state |-> InitialSession,
     status |-> "Download a lap to begin simulation.",
     pc |-> "idle", idx |-> 0, clicks |-> 0, button |-> "",
     collected |-> [df |-> NoneDf, error |-> NoError],
     auto_start |-> FALSE, sent |-> <<>>, interrupted |-> FALSE]

DashInit ==
    /\ file = NoFile
    /\ ret = "none"
    /\ out = NoOut
    /\ modified = FALSE
    /\ tampers = {}
    /\ pc = [w \in Writers |-> "idle"]
    /\ loc = [w \in Writers |-> NoLocals]
    /\ input = NoInput
    /\ result = NoResult
    /\ dash = DashStart

DownloadLap ==
    \E r \in collect_telemetry_data, auto_start \in BOOLEAN : Download(r, auto_start)

\* the service and the dashboard over the collector of data_collection.py;
\* the rest of the Download handler and the loop are left out of the
\* next-state relation because their guard, a stored dataframe, is never
\* met under this collector: DashNeverLoads holds of SpecScript, which
\* has them
DashNext ==
    LoadRaceData \/ DownloadLap \/ Start \/ Rerun
      \/ StopReset \/ StopClearTelemetry \/ StopClearAnomalies \/ StopResetStep

SpecDash == DashInit /\ [][DashNext]_vars

\* no script run stores a dataframe or reaches the simulation loop
DashNeverLoads ==
    /\ IsNone(dash.session_state.telemetry_df)
    /\ dash.pc \in {"idle", "line 143", "line 144", "line 145"}

\* every step of the script, reachable or not
ScriptNext ==
    DashNext \/ DownloadCheck \/ DownloadReset \/ DownloadAutoStart
      \/ SimSend \/ RecordAnomaly \/ Advance \/ Finish

SpecScript == DashInit /\ [][ScriptNext]_vars


\* C23: when collect_telemetry_data returned a dataframe and no error
\* message, /load_data answers 200 with the telemetry records, and the
\* Download handler stores that dataframe with current_step = TIMESTEPS - 1
\* and an empty anomaly list.
C23_CallersTakeSuccessPath ==
    /\ (input.kind = "collected" /\ ~ IsNone(input.df) /\ input.error = NoError)
          => (result.status_code = 200 /\ result.records = input.df.rows)
    /\ (dash.button = "Download" /\ ~ IsNone(dash.collected.df)
          /\ dash.collected.error = NoError)
          => /\ dash.session_state.telemetry_df = dash.collected.df
             /\ dash.session_state.current_step = TIMESTEPS - 1
             /\ dash.session_state.anomaly_indices = <<>>

\* C24: when collect_telemetry_data reported an error message, /load_data
\* answers 400 carrying that message, never 500.
C24_CollectorErrorIs400 ==
    (input.kind = "collected" /\ input.error # NoError)
        => (result.status_code = 400 /\ result.detail = input.error)

====
